---- MODULE Spec2Model ----
(***************************************************************************)
(* Project 5001: the rate-limit-aware download scheduler.                  *)
(*                                                                         *)
(*   database.py      Project5001Database  (the Record Store)              *)
(*   rate_limiter.py  RateLimitDetector    (classifier + device rotation)  *)
(*   harvester_v2.py  AdvancedHarvester    (the download orchestrator)     *)
(*   harvester_manager.py  HarvesterManager  (single-instance control)     *)
(*                                                                         *)
(* Timestamps are whole minutes.  The clock starts after Epoch, the value  *)
(* the selection sort substitutes for a NULL last_used.                    *)
(***************************************************************************)
EXTENDS Integers, Sequences, FiniteSets, Bags, TLC

\* ------------------------------------------------------------------ bounds
MaxTime == 6
MaxCalls == 2
MaxEvents == 1
MaxWorkers == 2
MaxCand == 2
MaxLines == 2
MaxProcs == 3

\* ------------------------------------------------------- program constants
NULL == -1
None == "None"
Epoch == 0
StartTime == Epoch + 1
RecordCooldownMinutes == 5
SpeedThreshold == 10000
NumQualities == 4

DeviceIds == {"d1", "d2"}
VideoIds == {"v1", "v2"}
Workers == 1..MaxWorkers

RateLimitTypes == {"http_429", "http_403", "http_503", "download_failure",
                   "speed_drop", "connection_timeout", "quota_exceeded"}

\* RateLimitDetector.cooldown_periods (minutes)
cooldown_periods ==
    [t \in RateLimitTypes |->
        CASE t = "http_429" -> 30
          [] t = "http_403" -> 60
          [] t = "http_503" -> 15
          [] t = "download_failure" -> 10
          [] t = "speed_drop" -> 5
          [] t = "connection_timeout" -> 5
          [] t = "quota_exceeded" -> 120]

VARIABLES
    videos,             \* videos table: the set of its rows
    devices,            \* device_rotation table: device_id -> row
    events,             \* rate_limit_events table: a bag of rows (ids omitted)
    store_up,           \* FALSE while sqlite3 calls raise
    now,                \* datetime.now(), minutes
    current_device_id,  \* RateLimitDetector.current_device_id
    rotation_enabled,   \* config 'rotation_enabled'
    ret,                \* what the rotation-manager call just made returned
    calls,              \* rotation-manager calls that wrote to the store
    detect_call,        \* a detect_rate_limit call: its arguments and result
    pc,                 \* harvest_playlist: position of the calling thread
    max_concurrent,     \* config 'max_concurrent_downloads'
    playlist,           \* harvest_playlist: what get_playlist_videos gave
    unseen_videos,      \* harvest_playlist: the list handed to the executor
    futures,            \* state of the future of each submitted task
    workers,            \* ThreadPoolExecutor threads running download_video
    processed,          \* futures already consumed by the as_completed loop
    downloaded_count,   \* harvest_playlist: local counter / return value
    fetch_log,          \* stub of _attempt_download: the ids it was called for
    start_videos,       \* ids in the videos table when the batch started
    start_available,    \* devices selectable when the batch started
    store_errors,       \* a Record Store call of this batch has raised
    sync_calls,         \* trigger_syncthing_rescan calls of this batch, by
                        \* what each did
    procs,              \* pids of the harvester_v2.py processes alive
    pid_file,           \* Project5001/harvester.pid: a pid, or NULL if absent
    callers             \* HarvesterManager calls in progress, per caller

storeVars == <<videos, devices, events, store_up>>
rotVars == <<now, current_device_id, rotation_enabled, ret, calls,
             detect_call>>
harvestVars == <<pc, max_concurrent, playlist, unseen_videos, futures,
                 workers, processed, downloaded_count, fetch_log,
                 start_videos, start_available, store_errors, sync_calls>>
managerVars == <<procs, pid_file, callers>>
vars == <<videos, devices, events, store_up, now, current_device_id,
          rotation_enabled, ret, calls, detect_call, pc, max_concurrent,
          playlist,
          unseen_videos, futures, workers, processed, downloaded_count,
          fetch_log, start_videos, start_available, store_errors, sync_calls,
          procs, pid_file, callers>>

\* ------------------------------------------------------------ Record Store
\* a row of device_rotation as add_device leaves it (column defaults)
NewDeviceRow ==
    [is_active |-> TRUE, last_used |-> NULL, rate_limit_count |-> 0,
     last_rate_limit |-> NULL, cooldown_until |-> NULL,
     success_count |-> 0, failure_count |-> 0]

Min(S) == CHOOSE x \in S : \A y \in S : x <= y

\* the permutations of a finite set, as sequences
Perms(S) ==
    {s \in [1..Cardinality(S) -> S] :
        \A i, j \in 1..Cardinality(S) : i # j => s[i] # s[j]}

\* position of a last_used value under ORDER BY last_used ASC NULLS FIRST
SqlNullsFirst(t) == IF t = NULL THEN Epoch - 1 ELSE t

RowIsActive_all(tbl, d) == TRUE

RowIsActive(tbl, d) == tbl[d].is_active

\* get_available_devices: the result lists the SELECT may return.  Rows
\* with equal last_used come in an order SQL leaves open.  A failed query
\* returns the empty list.
get_available_devices(tbl, up) ==
    IF ~up THEN {<<>>}
    ELSE LET act == {d \in DOMAIN tbl : RowIsActive(tbl, d)}
         IN {s \in Perms(act) :
                \A i, j \in 1..Len(s) :
                    i < j => SqlNullsFirst(tbl[s[i]].last_used)
                                <= SqlNullsFirst(tbl[s[j]].last_used)}

update_device_usage_last_used_only(tbl, up, d, success, t) ==
    IF ~up \/ d \notin DOMAIN tbl THEN tbl
    ELSE [tbl EXCEPT ![d].last_used = t]

\* update_device_usage: UPDATE ... WHERE device_id = ?
update_device_usage(tbl, up, d, success, t) ==
    IF ~up \/ d \notin DOMAIN tbl THEN tbl
    ELSE IF success
         THEN [tbl EXCEPT ![d].last_used = t,
                          ![d].success_count = @ + 1]
         ELSE [tbl EXCEPT ![d].last_used = t,
                          ![d].failure_count = @ + 1]

\* record_rate_limit: the cooldown_until it computes
record_cooldown(event_type, t) == t + RecordCooldownMinutes

record_rate_limit_row_cooldown_only(tbl, up, d, event_type, t) ==
    IF ~up \/ d \notin DOMAIN tbl THEN tbl
    ELSE [tbl EXCEPT ![d].rate_limit_count = @ + 1,
                     ![d].cooldown_until = record_cooldown(event_type, t)]

\* record_rate_limit: the UPDATE of device_rotation
record_rate_limit_row(tbl, up, d, event_type, t) ==
    IF ~up \/ d \notin DOMAIN tbl THEN tbl
    ELSE [tbl EXCEPT ![d].rate_limit_count = @ + 1,
                     ![d].last_rate_limit = t,
                     ![d].cooldown_until = record_cooldown(event_type, t)]

\* record_rate_limit: the INSERT INTO rate_limit_events
record_rate_limit_event(evs, up, d, event_type) ==
    IF ~up THEN evs
    ELSE evs (+) SetToBag({[device_id |-> d, event_type |-> event_type]})

\* add_device: INSERT OR REPLACE with the four named columns
add_device(tbl, up, d) ==
    IF ~up THEN tbl
    ELSE [x \in DOMAIN tbl \cup {d} |->
            IF x = d THEN NewDeviceRow ELSE tbl[x]]

\* a row of videos: the PRIMARY KEY column and the quality column
VideoRow(id, quality) == [id |-> id, quality |-> quality]

\* the ids that SELECT id FROM videos would list
video_ids(vids) == {r.id : r \in vids}

\* get_video / video_exists: a failed query answers "not found"
video_exists(vids, up, id) == up /\ \E r \in vids : r.id = id

add_video_insert(vids, up, id, quality) ==
    IF ~up THEN vids ELSE vids \cup {VideoRow(id, quality)}

\* add_video: INSERT OR REPLACE INTO videos deletes the row that holds the
\* same primary key, then inserts the new row
add_video(vids, up, id, quality) ==
    IF ~up THEN vids
    ELSE {r \in vids : r.id # id} \cup {VideoRow(id, quality)}

\* ------------------------------------------------------- RateLimitDetector
InCooldownAt_never(until, t) == FALSE

InCooldownAt_inclusive(until, t) == until # NULL /\ t <= until

\* the comparison of is_device_in_cooldown
InCooldownAt(until, t) == until # NULL /\ t < until

\* is_device_in_cooldown, evaluated on a fresh get_available_devices() list
is_device_in_cooldown(tbl, up, d, t) ==
    /\ up
    /\ d \in DOMAIN tbl
    /\ RowIsActive(tbl, d)
    /\ InCooldownAt(tbl[d].cooldown_until, t)

\* the sort key  (x['last_used'] or '1970-01-01', x['rate_limit_count'])
SortKey(tbl, d) ==
    <<IF tbl[d].last_used = NULL THEN Epoch ELSE tbl[d].last_used,
      tbl[d].rate_limit_count>>

KeyLess_last_used_only(a, b) == a[1] < b[1]

\* tuple comparison a < b of two sort keys
KeyLess(a, b) == a[1] < b[1] \/ (a[1] = b[1] /\ a[2] < b[2])

\* available_devices.sort(key=...)[0]: list.sort is stable, so the head is
\* the first element of the list that no other element is strictly below
SortedHead(tbl, s) ==
    s[Min({i \in 1..Len(s) :
              \A j \in 1..Len(s) :
                  ~KeyLess(SortKey(tbl, s[j]), SortKey(tbl, s[i]))})]

\* get_next_available_device, given the list `devs` the first query returned
\* and the time t at which the cooldown checks run
get_next_available_device(tbl, up, devs, t) ==
    LET available_devices ==
            SelectSeq(devs, LAMBDA d : ~is_device_in_cooldown(tbl, up, d, t))
    IN IF devs = <<>> \/ available_devices = <<>>
       THEN None
       ELSE SortedHead(tbl, available_devices)

\* ----------------------------------------------------------- initial state
\* rows a device_rotation table left by earlier runs can hold: a new row, a
\* row that was used and rate limited at StartTime, and such a row with
\* is_active cleared
UsedDeviceRow ==
    [is_active |-> TRUE, last_used |-> StartTime, rate_limit_count |-> 1,
     last_rate_limit |-> StartTime,
     cooldown_until |-> record_cooldown("http_429", StartTime),
     success_count |-> 1, failure_count |-> 0]

PersistedRows ==
    {NewDeviceRow, UsedDeviceRow, [UsedDeviceRow EXCEPT !.is_active = FALSE]}

PersistedTables ==
    UNION {[D -> PersistedRows] : D \in SUBSET DeviceIds \ {{}}}

NoRet == [op |-> "none", dev |-> None, kind |-> None, value |-> FALSE]

\* no detect_rate_limit call under examination
NoDetect ==
    [error_output |-> {}, http_status |-> NULL, download_speed |-> NULL,
     rate_limit_type |-> "not called"]

IdleWorker ==
    [pc |-> "idle", task |-> 0, quality |-> 0, next_device |-> None,
     device |-> None]

\* the processes that call HarvesterManager (command line, service)
Callers == {"c1", "c2"}

Pids == 1..MaxProcs

IdleCaller == [pc |-> "idle", pid |-> NULL, result |-> "none"]

\* no harvester process, no pid file, no HarvesterManager call in progress
ManagerIdle ==
    /\ procs = {}
    /\ pid_file = NULL
    /\ callers = [c \in Callers |-> IdleCaller]

HarvestIdle ==
    /\ pc = "idle"
    /\ max_concurrent \in 1..MaxWorkers
    /\ unseen_videos = <<>>
    /\ futures = <<>>
    /\ playlist = <<>>
    /\ workers = [w \in Workers |-> IdleWorker]
    /\ start_available = {}
    /\ store_errors = FALSE
    /\ processed = {}
    /\ downloaded_count = 0
    /\ fetch_log = {}
    /\ start_videos = {}
    /\ sync_calls = <<>>

\* ------------------------------------- the rotation manager, call by call
InitRot ==
    /\ videos = {}
    /\ devices \in PersistedTables
    /\ events = EmptyBag
    /\ store_up = TRUE
    /\ now = StartTime
    /\ current_device_id = "d1"
    /\ rotation_enabled = TRUE
    /\ ret = NoRet
    /\ calls = 0
    /\ detect_call = NoDetect
    /\ HarvestIdle
    /\ max_concurrent = 1
    /\ ManagerIdle

\* time passes; the last return value is no longer looked at
Tick ==
    /\ now < MaxTime
    /\ now' = now + 1
    /\ ret' = NoRet
    /\ UNCHANGED <<storeVars, current_device_id, rotation_enabled, calls,
                   harvestVars, detect_call, managerVars>>

\* DeviceManager.register_device
register_device(d) ==
    /\ calls < MaxCalls
    /\ calls' = calls + 1
    /\ devices' = add_device(devices, store_up, d)
    /\ ret' = [op |-> "register", dev |-> d, kind |-> None, value |-> FALSE]
    /\ UNCHANGED <<videos, events, store_up, now, current_device_id,
                   rotation_enabled, harvestVars, detect_call, managerVars>>

\* RateLimitDetector.record_rate_limit_event
record_rate_limit_event_call(d, event_type) ==
    /\ BagCardinality(events) < MaxEvents
    /\ calls < MaxCalls
    /\ calls' = calls + 1
    /\ devices' = record_rate_limit_row(devices, store_up, d, event_type, now)
    /\ events' = record_rate_limit_event(events, store_up, d, event_type)
    /\ ret' = [op |-> "record", dev |-> d, kind |-> event_type,
               value |-> FALSE]
    /\ UNCHANGED <<videos, store_up, now, current_device_id, rotation_enabled,
                   harvestVars, detect_call, managerVars>>

\* RateLimitDetector.is_device_in_cooldown
is_device_in_cooldown_call(d) ==
    /\ ret' = [op |-> "cooldown", dev |-> d, kind |-> None,
               value |-> is_device_in_cooldown(devices, store_up, d, now)]
    /\ UNCHANGED <<storeVars, now, current_device_id, rotation_enabled, calls,
                   harvestVars, detect_call, managerVars>>

\* RateLimitDetector.get_next_available_device
get_next_available_device_call ==
    \E devs \in get_available_devices(devices, store_up) :
        /\ ret' = [op |-> "select",
                   dev |-> get_next_available_device(devices, store_up,
                                                     devs, now),
                   kind |-> None, value |-> FALSE]
        /\ UNCHANGED <<storeVars, now, current_device_id, rotation_enabled,
                       calls, harvestVars, detect_call, managerVars>>

rotate_to_next_device_call_keeps_current ==
    \E devs \in get_available_devices(devices, store_up) :
        LET next_device ==
                get_next_available_device(devices, store_up, devs, now)
        IN /\ calls < MaxCalls
           /\ calls' = IF next_device = None THEN calls ELSE calls + 1
           /\ devices' = IF next_device = None THEN devices
                         ELSE update_device_usage(devices, store_up,
                                                  next_device, TRUE, now)
           /\ current_device_id' = current_device_id
           /\ ret' = [op |-> "rotate", dev |-> next_device, kind |-> None,
                      value |-> FALSE]
           /\ UNCHANGED <<videos, events, store_up, now, rotation_enabled,
                          harvestVars, detect_call, managerVars>>

\* RateLimitDetector.rotate_to_next_device
rotate_to_next_device_call ==
    \E devs \in get_available_devices(devices, store_up) :
        LET next_device ==
                get_next_available_device(devices, store_up, devs, now)
        IN /\ calls < MaxCalls
           /\ calls' = IF next_device = None THEN calls ELSE calls + 1
           /\ devices' = IF next_device = None THEN devices
                         ELSE update_device_usage(devices, store_up,
                                                  next_device, TRUE, now)
           /\ current_device_id' = IF next_device = None
                                   THEN current_device_id ELSE next_device
           /\ ret' = [op |-> "rotate", dev |-> next_device, kind |-> None,
                      value |-> FALSE]
           /\ UNCHANGED <<videos, events, store_up, now, rotation_enabled,
                          harvestVars, detect_call, managerVars>>

\* the non-rate-limit branch of handle_download_failure
record_ordinary_failure_call ==
    /\ calls < MaxCalls
    /\ calls' = calls + 1
    /\ devices' = update_device_usage(devices, store_up, current_device_id,
                                      FALSE, now)
    /\ ret' = [op |-> "ordinary", dev |-> current_device_id, kind |-> None,
               value |-> FALSE]
    /\ UNCHANGED <<videos, events, store_up, now, current_device_id,
                   rotation_enabled, harvestVars, detect_call, managerVars>>

\* the event types the calls are made with; record_rate_limit stores the
\* type and does nothing else with it
RecordedTypes == {"http_429", "connection_timeout", "quota_exceeded"}

NextRot ==
    \/ Tick
    \/ \E d \in DeviceIds : register_device(d)
    \/ \E d \in DeviceIds, k \in RecordedTypes :
          record_rate_limit_event_call(d, k)
    \/ \E d \in DeviceIds : is_device_in_cooldown_call(d)
    \/ get_next_available_device_call
    \/ rotate_to_next_device_call
    \/ record_ordinary_failure_call

SpecRot == InitRot /\ [][NextRot]_vars

\* DeviceManager.deactivate_device: self.db.db_path is a Path, not a
\* connection, so conn.cursor() raises AttributeError before any statement
\* runs; the exception is logged and False is returned
deactivate_device_call(d) ==
    /\ ret' = [op |-> "deactivate", dev |-> d, kind |-> None,
               value |-> FALSE]
    /\ UNCHANGED <<storeVars, now, current_device_id, rotation_enabled, calls,
                   harvestVars, detect_call, managerVars>>

\* DeviceManager.reactivate_device: fails in the same way
reactivate_device_call(d) ==
    /\ ret' = [op |-> "reactivate", dev |-> d, kind |-> None,
               value |-> FALSE]
    /\ UNCHANGED <<storeVars, now, current_device_id, rotation_enabled, calls,
                   harvestVars, detect_call, managerVars>>

NextOperator ==
    \/ Tick
    \/ \E d \in DeviceIds : deactivate_device_call(d)
    \/ \E d \in DeviceIds : reactivate_device_call(d)
    \/ get_next_available_device_call

\* the operator's actions on the device table, and selections
SpecOperator == InitRot /\ [][NextOperator]_vars

TypeOKRot ==
    /\ now \in StartTime..MaxTime
    /\ DOMAIN devices \subseteq DeviceIds
    /\ current_device_id \in DeviceIds

\* -------------------------------------------------- the failure classifier
\* An error text is the set of its lines.  The lines yt-dlp and the
\* harvester produce, as written:
ErrorLines ==
    {"HTTP Error 429: Too Many Requests", "HTTP Error 403: Forbidden",
     "HTTP Error 503: Service Unavailable",
     "Download failed: Connection timeout", "Quota exceeded for this API",
     "Download timeout", "Connection reset", "Video unavailable",
     "TOO MANY REQUESTS", "forbidden", "quota", "FAILED", "14290 bytes"}

\* str.lower() of a line
lower_line(l) ==
    CASE l = "HTTP Error 429: Too Many Requests"
            -> "http error 429: too many requests"
      [] l = "HTTP Error 403: Forbidden" -> "http error 403: forbidden"
      [] l = "HTTP Error 503: Service Unavailable"
            -> "http error 503: service unavailable"
      [] l = "Download failed: Connection timeout"
            -> "download failed: connection timeout"
      [] l = "Quota exceeded for this API" -> "quota exceeded for this api"
      [] l = "Download timeout" -> "download timeout"
      [] l = "Connection reset" -> "connection reset"
      [] l = "Video unavailable" -> "video unavailable"
      [] l = "TOO MANY REQUESTS" -> "too many requests"
      [] l = "FAILED" -> "failed"
      [] OTHER -> l

\* str.lower() of a text
lower(text) == {lower_line(l) : l \in text}

\* the searched patterns that are substrings of a line (case matters)
PatternsIn(l) ==
    CASE l = "HTTP Error 429: Too Many Requests" -> {"429"}
      [] l = "http error 429: too many requests"
            -> {"429", "too many requests"}
      [] l = "HTTP Error 403: Forbidden" -> {"403"}
      [] l = "http error 403: forbidden" -> {"403", "forbidden"}
      [] l = "HTTP Error 503: Service Unavailable" -> {"503"}
      [] l = "http error 503: service unavailable"
            -> {"503", "service unavailable"}
      [] l = "Download failed: Connection timeout" -> {"failed", "timeout"}
      [] l = "download failed: connection timeout"
            -> {"download failed", "failed", "connection", "timeout"}
      [] l = "quota exceeded for this api" -> {"quota exceeded", "quota"}
      [] l = "Download timeout" -> {"timeout"}
      [] l = "download timeout" -> {"timeout"}
      [] l = "connection reset" -> {"connection"}
      [] l = "too many requests" -> {"too many requests"}
      [] l = "forbidden" -> {"forbidden"}
      [] l = "quota" -> {"quota"}
      [] l = "failed" -> {"failed"}
      [] l = "14290 bytes" -> {"429"}
      [] OTHER -> {}

\* pattern in text
Occurs(pattern, text) == \E l \in text : pattern \in PatternsIn(l)

\* Python truth value of an Optional number
Truthy(x) == x # NULL /\ x # 0

detect_rate_limit_text_first(error_output, http_status, download_speed) ==
    LET error_lower == lower(error_output)
    IN
    IF \/ Occurs("429", error_output)
       \/ Occurs("too many requests", error_lower)
    THEN "http_429"
    ELSE IF Occurs("403", error_output) \/ Occurs("forbidden", error_lower)
    THEN "http_403"
    ELSE IF \/ Occurs("503", error_output)
            \/ Occurs("service unavailable", error_lower)
    THEN "http_503"
    ELSE IF \/ Occurs("quota exceeded", error_lower)
            \/ Occurs("quota", error_lower)
    THEN "quota_exceeded"
    ELSE IF Occurs("timeout", error_lower) \/ Occurs("connection", error_lower)
    THEN "connection_timeout"
    ELSE IF \/ Occurs("download failed", error_lower)
            \/ Occurs("failed", error_lower)
    THEN "download_failure"
    ELSE IF Truthy(http_status) /\ http_status = 429 THEN "http_429"
    ELSE IF Truthy(http_status) /\ http_status = 403 THEN "http_403"
    ELSE IF Truthy(http_status) /\ http_status = 503 THEN "http_503"
    ELSE IF Truthy(download_speed) /\ download_speed < SpeedThreshold
    THEN "speed_drop"
    ELSE None

detect_rate_limit_case_sensitive(error_output, http_status, download_speed) ==
    LET error_lower == error_output
    IN
    IF Truthy(http_status) /\ http_status = 429 THEN "http_429"
    ELSE IF Truthy(http_status) /\ http_status = 403 THEN "http_403"
    ELSE IF Truthy(http_status) /\ http_status = 503 THEN "http_503"
    ELSE IF \/ Occurs("429", error_output)
            \/ Occurs("too many requests", error_lower)
    THEN "http_429"
    ELSE IF Occurs("403", error_output) \/ Occurs("forbidden", error_lower)
    THEN "http_403"
    ELSE IF \/ Occurs("503", error_output)
            \/ Occurs("service unavailable", error_lower)
    THEN "http_503"
    ELSE IF \/ Occurs("quota exceeded", error_lower)
            \/ Occurs("quota", error_lower)
    THEN "quota_exceeded"
    ELSE IF Occurs("timeout", error_lower) \/ Occurs("connection", error_lower)
    THEN "connection_timeout"
    ELSE IF \/ Occurs("download failed", error_lower)
            \/ Occurs("failed", error_lower)
    THEN "download_failure"
    ELSE IF Truthy(download_speed) /\ download_speed < SpeedThreshold
    THEN "speed_drop"
    ELSE None

\* detect_rate_limit
detect_rate_limit(error_output, http_status, download_speed) ==
    LET error_lower == lower(error_output)
    IN
    IF Truthy(http_status) /\ http_status = 429 THEN "http_429"
    ELSE IF Truthy(http_status) /\ http_status = 403 THEN "http_403"
    ELSE IF Truthy(http_status) /\ http_status = 503 THEN "http_503"
    ELSE IF \/ Occurs("429", error_output)
            \/ Occurs("too many requests", error_lower)
    THEN "http_429"
    ELSE IF Occurs("403", error_output) \/ Occurs("forbidden", error_lower)
    THEN "http_403"
    ELSE IF \/ Occurs("503", error_output)
            \/ Occurs("service unavailable", error_lower)
    THEN "http_503"
    ELSE IF \/ Occurs("quota exceeded", error_lower)
            \/ Occurs("quota", error_lower)
    THEN "quota_exceeded"
    ELSE IF Occurs("timeout", error_lower) \/ Occurs("connection", error_lower)
    THEN "connection_timeout"
    ELSE IF \/ Occurs("download failed", error_lower)
            \/ Occurs("failed", error_lower)
    THEN "download_failure"
    ELSE IF Truthy(download_speed) /\ download_speed < SpeedThreshold
    THEN "speed_drop"
    ELSE None

\* the arguments detect_rate_limit is called with
Texts == {text \in SUBSET ErrorLines : Cardinality(text) <= MaxLines}

HttpStatuses == {NULL, 0, 403, 404, 429, 503}

DownloadSpeeds == {NULL, 0, 4000, 9999, 10000, 20000}

InitClassify ==
    /\ videos = {}
    /\ devices = [d \in DeviceIds |-> NewDeviceRow]
    /\ events = EmptyBag
    /\ store_up = TRUE
    /\ now = StartTime
    /\ current_device_id = "d1"
    /\ rotation_enabled = TRUE
    /\ ret = NoRet
    /\ calls = 0
    /\ detect_call \in [error_output : Texts, http_status : HttpStatuses,
                        download_speed : DownloadSpeeds,
                        rate_limit_type : {"not called"}]
    /\ HarvestIdle
    /\ max_concurrent = 1
    /\ ManagerIdle

\* RateLimitDetector.detect_rate_limit is called and returns
detect_rate_limit_call ==
    /\ detect_call.rate_limit_type = "not called"
    /\ detect_call' =
          [detect_call EXCEPT !.rate_limit_type =
              detect_rate_limit(detect_call.error_output,
                                detect_call.http_status,
                                detect_call.download_speed)]
    /\ UNCHANGED <<storeVars, now, current_device_id, rotation_enabled, ret,
                   calls, harvestVars, managerVars>>

NextClassify == detect_rate_limit_call

\* the classifier alone, on every combination of arguments
SpecClassify == InitClassify /\ [][NextClassify]_vars

\* ------------------------------------------------- the download orchestrator
\* what _attempt_download can return: success; yt-dlp failing with
\* "HTTP Error 429"; a failure whose stderr matches no pattern
FetchResults ==
    {[ok |-> TRUE, error |-> {}, http_status |-> NULL, download_speed |-> NULL],
     [ok |-> FALSE, error |-> {"HTTP Error 429: Too Many Requests"},
      http_status |-> 429, download_speed |-> 0],
     [ok |-> FALSE, error |-> {"Video unavailable"}, http_status |-> NULL,
      download_speed |-> 0]}

\* the playlists get_playlist_videos can return: ids in playlist order, an
\* id possibly more than once.  Ids are interchangeable, so of the lists
\* that differ only by a renaming of the ids the one starting with "v1" is
\* taken.
Playlists ==
    {vs \in UNION {[1..n -> VideoIds] : n \in 0..MaxCand} :
        vs # <<>> => vs[1] = "v1"}

Range(s) == {s[i] : i \in DOMAIN s}

get_unseen_videos_all(vids, up, vs) == vs

\* get_unseen_videos
get_unseen_videos(vids, up, vs) ==
    SelectSeq(vs, LAMBDA v : ~video_exists(vids, up, v))

\* the videos table left by earlier harvests
PersistedVideos == {{VideoRow(v, 1) : v \in S} : S \in SUBSET VideoIds}

Init ==
    /\ videos \in PersistedVideos
    /\ devices \in [DeviceIds -> {NewDeviceRow, UsedDeviceRow}]
    /\ events = EmptyBag
    /\ store_up = TRUE
    /\ now = StartTime
    /\ current_device_id = "d1"
    /\ rotation_enabled = TRUE
    /\ ret = NoRet
    /\ calls = 0
    /\ detect_call = NoDetect
    /\ HarvestIdle
    /\ ManagerIdle

harvest_playlist_start_marks_device(vs) ==
    /\ pc = "idle"
    /\ LET unseen == get_unseen_videos(videos, store_up, vs)
       IN /\ playlist' = vs
          /\ unseen_videos' = unseen
          /\ futures' = [i \in 1..Len(unseen) |-> "queued"]
          /\ pc' = IF unseen = <<>> THEN "done" ELSE "collect"
          /\ store_errors' = (vs # <<>> /\ ~store_up)
    /\ processed' = {}
    /\ downloaded_count' = 0
    /\ fetch_log' = {}
    /\ start_videos' = video_ids(videos)
    /\ start_available' =
          {d \in DOMAIN devices :
              /\ devices[d].is_active
              /\ ~InCooldownAt(devices[d].cooldown_until, now)}
    /\ sync_calls' = <<>>
    /\ devices' = update_device_usage(devices, store_up, current_device_id,
                                      TRUE, now)
    /\ UNCHANGED <<videos, events, store_up, rotVars, max_concurrent, workers,
                   managerVars>>

\* harvest_playlist up to the submission of the tasks to the executor
harvest_playlist_start(vs) ==
    /\ pc = "idle"
    /\ LET unseen == get_unseen_videos(videos, store_up, vs)
       IN /\ playlist' = vs
          /\ unseen_videos' = unseen
          /\ futures' = [i \in 1..Len(unseen) |-> "queued"]
          /\ pc' = IF unseen = <<>> THEN "done" ELSE "collect"
          /\ store_errors' = (vs # <<>> /\ ~store_up)
    /\ processed' = {}
    /\ downloaded_count' = 0
    /\ fetch_log' = {}
    /\ start_videos' = video_ids(videos)
    /\ start_available' =
          {d \in DOMAIN devices :
              /\ devices[d].is_active
              /\ ~InCooldownAt(devices[d].cooldown_until, now)}
    /\ sync_calls' = <<>>
    /\ UNCHANGED <<storeVars, rotVars, max_concurrent, workers, managerVars>>

\* the fields of a worker about to call _attempt_download for task i at
\* entry q of quality_settings; `device` is the value current_device_id has
\* at that moment (the code keeps no such copy: the field records on which
\* device the attempt runs)
Attempting(i, q, d) ==
    [pc |-> "fetching", task |-> i, quality |-> q, next_device |-> None,
     device |-> d]

FreeThread_any(w) == workers[w].pc = "idle"

\* ThreadPoolExecutor(max_workers=max_concurrent) runs at most
\* max_concurrent threads
FreeThread(w) == w <= max_concurrent /\ workers[w].pc = "idle"

\* the oldest task still in the executor's work queue
OldestQueued(i) ==
    /\ i \in DOMAIN futures
    /\ futures[i] = "queued"
    /\ \A j \in 1..(i - 1) : futures[j] # "queued"

\* a free thread of the pool takes the oldest queued task, enters
\* download_video and calls _attempt_download with the first quality
download_video_call(w) ==
    /\ pc = "collect"
    /\ FreeThread(w)
    /\ \E i \in DOMAIN futures :
          /\ OldestQueued(i)
          /\ futures' = [futures EXCEPT ![i] = "running"]
          /\ workers' = [workers EXCEPT ![w] = Attempting(i, 1, current_device_id)]
          /\ fetch_log' = fetch_log \cup {unseen_videos[i]}
    /\ UNCHANGED <<storeVars, rotVars, pc, max_concurrent, playlist,
                   unseen_videos, processed, downloaded_count, start_videos,
                   start_available, store_errors, sync_calls, managerVars>>

\* a free thread takes the oldest queued task and download_video raises
\* before its first attempt (building the file name reads the harvest
\* directory); the executor stores the exception in the future
download_video_raises(w) ==
    /\ pc = "collect"
    /\ FreeThread(w)
    /\ \E i \in DOMAIN futures :
          /\ OldestQueued(i)
          /\ futures' = [futures EXCEPT ![i] = "raised"]
    /\ UNCHANGED <<storeVars, rotVars, pc, max_concurrent, playlist,
                   unseen_videos, workers, processed, downloaded_count,
                   fetch_log, start_videos, start_available, store_errors,
                   sync_calls, managerVars>>

\* the future of worker w's task completes with outcome `o`
Complete(w, o) ==
    /\ futures' = [futures EXCEPT ![workers[w].task] = o]
    /\ workers' = [workers EXCEPT ![w] = IdleWorker]

VideoOf(w) == unseen_videos[workers[w].task]

\* _attempt_download returns success: tag, add_video, return the result dict
download_video_success(w) ==
    /\ workers[w].pc = "fetching"
    /\ videos' = add_video(videos, store_up, VideoOf(w), workers[w].quality)
    /\ store_errors' = (store_errors \/ ~store_up)
    /\ Complete(w, "ok")
    /\ UNCHANGED <<devices, events, store_up, rotVars, pc, max_concurrent,
                   playlist, unseen_videos, processed, downloaded_count,
                   fetch_log, start_videos, start_available, sync_calls,
                   managerVars>>

handle_download_failure_record_persists(w, r) ==
    /\ workers[w].pc = "fetching"
    /\ ~r.ok
    /\ LET rate_limit_type ==
               detect_rate_limit(r.error, r.http_status, r.download_speed)
       IN IF rate_limit_type # None
          THEN /\ devices' = record_rate_limit_row(devices, store_up,
                                 current_device_id, rate_limit_type, now)
               /\ events' = record_rate_limit_event(events, store_up,
                                 current_device_id, rate_limit_type)
               /\ IF rotation_enabled
                  THEN /\ workers' = [workers EXCEPT ![w].pc = "rotate",
                                                     ![w].device = None]
                       /\ UNCHANGED futures
                  ELSE Complete(w, "none")
          ELSE /\ devices' = update_device_usage(devices, store_up,
                                 current_device_id, FALSE, now)
               /\ UNCHANGED events
               /\ Complete(w, "none")
    /\ store_errors' = (store_errors \/ ~store_up)
    /\ videos' = add_video(videos, store_up, VideoOf(w), workers[w].quality)
    /\ UNCHANGED <<store_up, rotVars, pc, max_concurrent, playlist,
                   unseen_videos, processed, downloaded_count, fetch_log,
                   start_videos, start_available, sync_calls, managerVars>>

\* _attempt_download returns the failure r; handle_download_failure up to
\* the rotation: classify, then record the rate-limit event or the ordinary
\* failure against current_device_id
handle_download_failure_record(w, r) ==
    /\ workers[w].pc = "fetching"
    /\ ~r.ok
    /\ LET rate_limit_type ==
               detect_rate_limit(r.error, r.http_status, r.download_speed)
       IN IF rate_limit_type # None
          THEN /\ devices' = record_rate_limit_row(devices, store_up,
                                 current_device_id, rate_limit_type, now)
               /\ events' = record_rate_limit_event(events, store_up,
                                 current_device_id, rate_limit_type)
               /\ IF rotation_enabled
                  THEN /\ workers' = [workers EXCEPT ![w].pc = "rotate",
                                                     ![w].device = None]
                       /\ UNCHANGED futures
                  ELSE Complete(w, "none")
          ELSE /\ devices' = update_device_usage(devices, store_up,
                                 current_device_id, FALSE, now)
               /\ UNCHANGED events
               /\ Complete(w, "none")
    /\ store_errors' = (store_errors \/ ~store_up)
    /\ UNCHANGED <<videos, store_up, rotVars, pc, max_concurrent, playlist,
                   unseen_videos, processed, downloaded_count, fetch_log,
                   start_videos, start_available, sync_calls, managerVars>>

\* rotate_to_next_device: get_next_available_device
handle_download_failure_select(w) ==
    /\ workers[w].pc = "rotate"
    /\ \E devs \in get_available_devices(devices, store_up) :
          LET next_device ==
                  get_next_available_device(devices, store_up, devs, now)
          IN IF next_device = None
             THEN Complete(w, "none")
             ELSE /\ workers' = [workers EXCEPT
                                    ![w].pc = "claim",
                                    ![w].next_device = next_device]
                  /\ UNCHANGED futures
    /\ store_errors' = (store_errors \/ ~store_up)
    /\ UNCHANGED <<storeVars, rotVars, pc, max_concurrent, playlist,
                   unseen_videos, processed, downloaded_count, fetch_log,
                   start_videos, start_available, sync_calls, managerVars>>

handle_download_failure_claim_same_tier(w) ==
    /\ workers[w].pc = "claim"
    /\ devices' = update_device_usage(devices, store_up,
                                      workers[w].next_device, TRUE, now)
    /\ current_device_id' = workers[w].next_device
    /\ workers' = [workers EXCEPT
          ![w] = Attempting(workers[w].task, workers[w].quality,
                            workers[w].next_device)]
    /\ fetch_log' = fetch_log \cup {VideoOf(w)}
    /\ store_errors' = (store_errors \/ ~store_up)
    /\ UNCHANGED <<videos, events, store_up, now, rotation_enabled, ret,
                   calls, pc, max_concurrent, playlist, unseen_videos,
                   futures, processed, downloaded_count, start_videos,
                   start_available, sync_calls, detect_call, managerVars>>

\* rotate_to_next_device: update_device_usage and the new current device;
\* download_video then continues with the next entry of quality_settings
\* and calls _attempt_download again, or has run out of entries
handle_download_failure_claim(w) ==
    /\ workers[w].pc = "claim"
    /\ devices' = update_device_usage(devices, store_up,
                                      workers[w].next_device, TRUE, now)
    /\ current_device_id' = workers[w].next_device
    /\ IF workers[w].quality < NumQualities
       THEN /\ workers' = [workers EXCEPT
                  ![w] = Attempting(workers[w].task,
                                    workers[w].quality + 1,
                                    workers[w].next_device)]
            /\ fetch_log' = fetch_log \cup {VideoOf(w)}
            /\ UNCHANGED futures
       ELSE /\ Complete(w, "none")
            /\ UNCHANGED fetch_log
    /\ store_errors' = (store_errors \/ ~store_up)
    /\ UNCHANGED <<videos, events, store_up, now, rotation_enabled, ret,
                   calls, pc, max_concurrent, playlist, unseen_videos,
                   processed, downloaded_count, start_videos, start_available,
                   sync_calls, detect_call, managerVars>>

\* the as_completed loop takes a future that returned
as_completed_result(i) ==
    /\ pc = "collect"
    /\ i \in DOMAIN futures \ processed
    /\ futures[i] \in {"ok", "none"}
    /\ downloaded_count' =
          IF futures[i] = "ok" THEN downloaded_count + 1 ELSE downloaded_count
    /\ processed' = processed \cup {i}
    /\ UNCHANGED <<storeVars, rotVars, pc, max_concurrent, playlist,
                   unseen_videos, futures, workers, fetch_log, start_videos,
                   start_available, store_errors, sync_calls, managerVars>>

as_completed_exception_propagates(i) ==
    /\ pc = "collect"
    /\ i \in DOMAIN futures \ processed
    /\ futures[i] = "raised"
    /\ pc' = "raised"
    /\ UNCHANGED <<storeVars, rotVars, max_concurrent, playlist,
                   unseen_videos, futures, workers, processed,
                   downloaded_count, fetch_log, start_videos, start_available,
                   store_errors, sync_calls, managerVars>>

\* the as_completed loop takes a future whose result() raises: the
\* exception is logged
as_completed_exception(i) ==
    /\ pc = "collect"
    /\ i \in DOMAIN futures \ processed
    /\ futures[i] = "raised"
    /\ processed' = processed \cup {i}
    /\ UNCHANGED <<storeVars, rotVars, pc, max_concurrent, playlist,
                   unseen_videos, futures, workers, downloaded_count,
                   fetch_log, start_videos, start_available, store_errors,
                   sync_calls, managerVars>>

\* what one call of trigger_syncthing_rescan can do: return at once because
\* Syncthing is disabled or not fully configured, post the scan request, or
\* post it and log the exception it raised
RescanOutcomes == {"skipped", "posted", "failed"}

\* trigger_syncthing_rescan
trigger_syncthing_rescan(log, outcome) == Append(log, outcome)

harvest_playlist_return_always_rescans ==
    /\ pc = "collect"
    /\ processed = DOMAIN futures
    /\ \E o \in RescanOutcomes :
          sync_calls' = trigger_syncthing_rescan(sync_calls, o)
    /\ pc' = "done"
    /\ UNCHANGED <<storeVars, rotVars, max_concurrent, playlist,
                   unseen_videos, futures, workers, processed,
                   downloaded_count, fetch_log, start_videos, start_available,
                   store_errors, managerVars>>

\* the loop is over, the executor has shut down; rescan, return the count
harvest_playlist_return ==
    /\ pc = "collect"
    /\ processed = DOMAIN futures
    /\ \E o \in RescanOutcomes :
          sync_calls' = IF downloaded_count > 0
                        THEN trigger_syncthing_rescan(sync_calls, o)
                        ELSE sync_calls
    /\ pc' = "done"
    /\ UNCHANGED <<storeVars, rotVars, max_concurrent, playlist,
                   unseen_videos, futures, workers, processed,
                   downloaded_count, fetch_log, start_videos, start_available,
                   store_errors, managerVars>>

FetchFailures == {r \in FetchResults : ~r.ok}

WorkerStep(w) ==
    \/ download_video_call(w)
    \/ download_video_raises(w)
    \/ download_video_success(w)
    \/ \E r \in FetchFailures : handle_download_failure_record(w, r)
    \/ handle_download_failure_select(w)
    \/ handle_download_failure_claim(w)

MainStep ==
    \/ \E i \in DOMAIN futures : as_completed_result(i)
    \/ \E i \in DOMAIN futures : as_completed_exception(i)
    \/ harvest_playlist_return

\* one harvest_playlist call.  The clock stands still during the batch:
\* cooldowns neither start to apply late nor expire while it runs.
Next ==
    \/ \E vs \in Playlists : harvest_playlist_start(vs)
    \/ \E w \in Workers : download_video_call(w)
    \/ \E w \in Workers : download_video_raises(w)
    \/ \E w \in Workers : download_video_success(w)
    \/ \E w \in Workers, r \in FetchFailures :
          handle_download_failure_record(w, r)
    \/ \E w \in Workers : handle_download_failure_select(w)
    \/ \E w \in Workers : handle_download_failure_claim(w)
    \/ \E i \in DOMAIN futures : as_completed_result(i)
    \/ \E i \in DOMAIN futures : as_completed_exception(i)
    \/ harvest_playlist_return

Spec == Init /\ [][Next]_vars

TypeOK ==
    /\ pc \in {"idle", "collect", "done", "raised"}
    /\ \A i \in DOMAIN futures :
          futures[i] \in {"queued", "running", "ok", "none", "raised"}
    /\ \A w \in Workers :
          workers[w].pc \in {"idle", "fetching", "rotate", "claim"}

\* a step of the running batch, by a pool thread or by the calling thread
BatchStep == MainStep \/ \E w \in Workers : WorkerStep(w)

\* the orchestrator with responsive fetches and a scheduler that does not
\* halt: while some thread can take a step (an outstanding _attempt_download
\* call can return), some thread eventually takes one
FairSpec == Spec /\ WF_vars(BatchStep)

\* the persistence layer becomes unavailable: sqlite3 calls raise from now on
StoreFails ==
    /\ store_up
    /\ store_up' = FALSE
    /\ UNCHANGED <<videos, devices, events, rotVars, harvestVars,
                   managerVars>>

NextStoreFail == Next \/ StoreFails

\* the orchestrator on a Record Store that can fail
SpecStoreFail == Init /\ [][NextStoreFail]_vars

\* _attempt_download failing on a connection that timed out
TimeoutFailure ==
    [ok |-> FALSE, error |-> {"Download failed: Connection timeout"},
     http_status |-> NULL, download_speed |-> 0]

\* freshly registered devices only: the current device alone, or both
FreshTables ==
    {[d \in D |-> NewDeviceRow] : D \in {{"d1"}, DeviceIds}}

\* a first harvest, one download at a time
InitSequential ==
    /\ videos = {}
    /\ devices \in FreshTables
    /\ events = EmptyBag
    /\ store_up = TRUE
    /\ now = StartTime
    /\ current_device_id = "d1"
    /\ rotation_enabled = TRUE
    /\ ret = NoRet
    /\ calls = 0
    /\ detect_call = NoDetect
    /\ HarvestIdle
    /\ max_concurrent = 1
    /\ ManagerIdle

NextSequential ==
    \/ Next
    \/ \E w \in Workers : handle_download_failure_record(w, TimeoutFailure)

\* the orchestrator with max_concurrent_downloads = 1 on fresh tables,
\* fetches also failing on timeouts
SpecSequential == InitSequential /\ [][NextSequential]_vars

\* ---------------------------------------------------- the harvester manager
\* _is_process_running: os.kill(pid, 0) succeeds
is_process_running(alive, pid) == pid \in alive

\* _detect_harvester_process: some process has harvester_v2.py on its
\* command line
detect_harvester_process(alive) == alive # {}

\* is_running: the pid file decides when it exists, the process scan
\* otherwise
is_running(alive, file) ==
    IF file # NULL
    THEN is_process_running(alive, file)
    ELSE detect_harvester_process(alive)

\* the pid file after is_running: a file naming a dead process is removed
is_running_pid_file(alive, file) ==
    IF file # NULL /\ ~is_process_running(alive, file) THEN NULL ELSE file

\* the pid the operating system gives the next process: one that no live
\* process has and that nobody still remembers
NewPid(p) ==
    /\ p \in Pids \ (procs \cup {pid_file}
                             \cup {callers[c].pid : c \in Callers})
    /\ \A q \in Pids : q < p =>
          q \in procs \cup {pid_file} \cup {callers[c].pid : c \in Callers}

\* start_harvester up to the decision: "already running", or go on to Popen
start_harvester_check(c) ==
    /\ callers[c].pc = "idle"
    /\ pid_file' = is_running_pid_file(procs, pid_file)
    /\ callers' = [callers EXCEPT ![c] =
          IF is_running(procs, pid_file)
          THEN [IdleCaller EXCEPT !.result = "already running"]
          ELSE [pc |-> "popen", pid |-> NULL, result |-> "none"]]
    /\ UNCHANGED <<storeVars, rotVars, harvestVars, procs>>

\* start_harvester: subprocess.Popen, then time.sleep(2)
start_harvester_popen(c) ==
    /\ callers[c].pc = "popen"
    /\ \E p \in Pids :
          /\ NewPid(p)
          /\ procs' = procs \cup {p}
          /\ callers' = [callers EXCEPT ![c] =
                [pc |-> "sleep", pid |-> p, result |-> "none"]]
    /\ UNCHANGED <<storeVars, rotVars, harvestVars, pid_file>>

\* start_harvester after the sleep: if the child still runs, write its pid
\* to the pid file and report success; report the failure otherwise
start_harvester_poll(c) ==
    /\ callers[c].pc = "sleep"
    /\ IF is_process_running(procs, callers[c].pid)
       THEN /\ pid_file' = callers[c].pid
            /\ callers' = [callers EXCEPT ![c] =
                  [IdleCaller EXCEPT !.result = "started"]]
       ELSE /\ callers' = [callers EXCEPT ![c] =
                  [IdleCaller EXCEPT !.result = "failed to start"]]
            /\ UNCHANGED pid_file
    /\ UNCHANGED <<storeVars, rotVars, harvestVars, procs>>

\* stop_harvester: is_running, _get_pid, SIGTERM (SIGKILL after ten
\* seconds), _cleanup_pid_file
stop_harvester(c) ==
    /\ callers[c].pc = "idle"
    /\ LET file == is_running_pid_file(procs, pid_file)
       IN IF ~is_running(procs, pid_file)
          THEN /\ pid_file' = file
               /\ callers' = [callers EXCEPT ![c] =
                     [IdleCaller EXCEPT !.result = "not running"]]
               /\ UNCHANGED procs
          ELSE IF file = NULL
          THEN /\ callers' = [callers EXCEPT ![c] =
                     [IdleCaller EXCEPT !.result = "no pid"]]
               /\ UNCHANGED <<procs, pid_file>>
          ELSE /\ procs' = procs \ {file}
               /\ pid_file' = NULL
               /\ callers' = [callers EXCEPT ![c] =
                     [IdleCaller EXCEPT !.result = "stopped"]]
    /\ UNCHANGED <<storeVars, rotVars, harvestVars>>

\* a harvester process ends by itself (harvester_v2.py main returns or fails)
harvester_exits(p) ==
    /\ p \in procs
    /\ procs' = procs \ {p}
    /\ UNCHANGED <<storeVars, rotVars, harvestVars, pid_file, callers>>

InitManager ==
    /\ InitSequential
    /\ devices = [d \in DeviceIds |-> NewDeviceRow]

NextManager ==
    \/ \E c \in Callers : start_harvester_check(c)
    \/ \E c \in Callers : start_harvester_popen(c)
    \/ \E c \in Callers : start_harvester_poll(c)
    \/ \E c \in Callers : stop_harvester(c)
    \/ \E p \in Pids : harvester_exits(p)

\* HarvesterManager used by two callers at once
SpecManager == InitManager /\ [][NextManager]_vars

\* ---------------------------------------------------- orchestrator: claims
Outstanding == {w \in Workers : workers[w].pc = "fetching"}

\* C1: with concurrency limit N, the number of fetch attempts that have
\* started and not yet returned is at most N in every reachable state.
C1_OutstandingFetchesBounded == Cardinality(Outstanding) <= max_concurrent

\* the pool is saturated: N fetches outstanding while a task still waits
C1_Witness ==
    /\ Cardinality(Outstanding) = max_concurrent
    /\ \E i \in DOMAIN futures : futures[i] = "queued"

\* C2: no fetch attempt is issued in a batch for an id that was in the
\* Record Store when the batch started; a batch all of whose candidates were
\* already stored returns 0.
C2_StoredCandidatesNotFetched ==
    /\ fetch_log \cap start_videos = {}
    /\ (pc = "done" /\ Range(playlist) \subseteq start_videos)
          => downloaded_count = 0

\* a batch over candidates that an earlier harvest had all stored has
\* returned
C2_Witness ==
    /\ pc = "done"
    /\ playlist # <<>>
    /\ Range(playlist) \subseteq start_videos
    /\ downloaded_count = 0
    /\ fetch_log = {}

\* C3: an id that appears twice in one candidate batch is dispatched to the
\* worker pool only once.
C3_DuplicateDispatchedOnce ==
    \A v \in VideoIds :
        Cardinality({i \in DOMAIN unseen_videos : unseen_videos[i] = v}) <= 1

\* C8: if every registered device is inactive or in cooldown when the batch
\* starts, no item of the batch is fetched successfully, nothing is
\* persisted and the batch returns 0.
C8_NoSuccessWithoutDevice ==
    start_available = {} =>
        /\ \A i \in DOMAIN futures : futures[i] # "ok"
        /\ pc = "done" => downloaded_count = 0 /\ video_ids(videos) = start_videos

\* C9: a batch during which a Record Store call failed does not return
\* normally but raises, and a batch raises for no other reason.
C9_StoreFailureSurfaces ==
    /\ pc = "done" => ~store_errors
    /\ pc = "raised" => store_errors

\* the ids for which a fetch attempt of this batch returned success
Fetched == {unseen_videos[i] : i \in {j \in DOMAIN futures : futures[j] = "ok"}}

\* C11: once a batch has started, an id is in the videos table only if it
\* was there when the batch started or a fetch attempt for it returned
\* success; every id that was there or was fetched successfully is still
\* there (nothing is deleted).
C11_PersistedOnlyAfterSuccess ==
    pc # "idle" =>
        /\ video_ids(videos) \subseteq start_videos \cup Fetched
        /\ start_videos \cup Fetched \subseteq video_ids(videos)

\* a batch has returned in which one item failed all its attempts and is
\* not stored while another was fetched and stored next to an older row
C11_Witness ==
    /\ pc = "done"
    /\ \E i, j \in DOMAIN futures :
          /\ futures[i] = "none"
          /\ unseen_videos[i] \notin video_ids(videos)
          /\ futures[j] = "ok"
          /\ unseen_videos[j] \in video_ids(videos) \ start_videos

\* C14: the videos table never holds two rows with the same id, and after
\* every add_video, by whichever worker, the one row of that id holds the
\* values of that call.
C14_UpsertKeepsOneRow ==
    /\ [](\A r1, r2 \in videos : r1.id = r2.id => r1 = r2)
    /\ [][\A w \in Workers :
             (/\ workers[w].pc = "fetching"
              /\ futures'[workers[w].task] = "ok")
                 => {r \in videos' : r.id = VideoOf(w)}
                       = {VideoRow(VideoOf(w), workers[w].quality)}]_vars

\* the same id was upserted by two tasks of one batch, the later call with
\* other field values than the row it found
C14_Witness ==
    \E i, j \in DOMAIN futures :
        /\ i # j
        /\ unseen_videos[i] = unseen_videos[j]
        /\ futures[i] = "ok"
        /\ futures[j] = "ok"
        /\ VideoRow(unseen_videos[i], 1) \notin videos

\* the calls of trigger_syncthing_rescan that posted the scan request
Posts == {i \in DOMAIN sync_calls : sync_calls[i] # "skipped"}

\* C12: with Syncthing enabled and configured the scan request is posted
\* exactly once by a batch in which an item succeeded and never by a batch in
\* which none did; it is posted only after every worker has finished; the
\* batch returns the number of succeeded items and does not raise, whether
\* the request went through or failed.
C12_SyncNotifiedOnceAfterBatch ==
    /\ pc # "raised"
    /\ sync_calls # <<>> =>
          /\ pc = "done"
          /\ \A w \in Workers : workers[w].pc = "idle"
          /\ \A i \in DOMAIN futures : futures[i] \in {"ok", "none", "raised"}
    /\ pc = "done" =>
          /\ downloaded_count =
                Cardinality({i \in DOMAIN futures : futures[i] = "ok"})
          /\ Fetched = {} => Posts = {}
          /\ (Fetched # {} /\ "skipped" \notin Range(sync_calls))
                => Cardinality(Posts) = 1

\* a batch has returned its count of one although the scan request it
\* posted failed
C12_Witness ==
    /\ pc = "done"
    /\ sync_calls = <<"failed">>
    /\ downloaded_count = 1
    /\ \E i \in DOMAIN futures : futures[i] = "none"

\* C13: harvest_playlist on an empty list of candidates returns 0 at once
\* and leaves everything as it was: no fetch attempt, the device rows, the
\* rate-limit events and the videos unchanged, no scan request; nothing
\* happens after it has returned.
C13_EmptyBatchIsNoOp ==
    /\ [][(pc = "idle" /\ pc' # "idle" /\ playlist' = <<>>)
            => /\ pc' = "done"
               /\ downloaded_count' = 0
               /\ fetch_log' = {}
               /\ sync_calls' = <<>>
               /\ UNCHANGED <<videos, devices, events, current_device_id>>]_vars
    /\ [][(pc = "done" /\ playlist = <<>>)
            => UNCHANGED <<videos, devices, events, current_device_id,
                           fetch_log, sync_calls, downloaded_count, pc>>]_vars

\* harvest_playlist has returned from a call with no candidates
C13_Witness ==
    /\ pc = "done"
    /\ playlist = <<>>
    /\ downloaded_count = 0

Terminal == {"ok", "none", "raised"}

\* C10: every batch that dispatched its candidates eventually returns a count
\* with every dispatched candidate in a terminal state, whatever happened to
\* the single items.
C10_BatchAlwaysCompletes ==
    (pc = "collect") ~>
        (pc = "done" /\ \A i \in DOMAIN futures : futures[i] \in Terminal)

\* a batch has returned in which download_video raised for one item and
\* another item was fetched and counted
C10_Witness ==
    /\ pc = "done"
    /\ \E i, j \in DOMAIN futures :
          /\ futures[i] = "raised"
          /\ futures[j] = "ok"
          /\ downloaded_count = 1

\* a rate-limit event of the given type is recorded for the device
Recorded(d, event_type) ==
    BagIn([device_id |-> d, event_type |-> event_type], events)

\* C15: one registered active device, one item, the fetch answers 429:
\* after the batch the device's cooldown ends 30 minutes after the failure,
\* the item has failed and is not stored, and the batch returns 0.
C15_Http429CoolsThirtyMinutes ==
    (/\ pc = "done"
     /\ DOMAIN devices = {"d1"}
     /\ Len(unseen_videos) = 1
     /\ Recorded("d1", "http_429"))
        => /\ devices["d1"].cooldown_until
                 = devices["d1"].last_rate_limit + cooldown_periods["http_429"]
           /\ futures[1] = "none"
           /\ unseen_videos[1] \notin video_ids(videos)
           /\ downloaded_count = 0

\* C16: devices A (current) and B idle, one item: the fetch on A fails with
\* "connection timeout" and the next fetch succeeds.  Then A has
\* rate_limit_count 1 and a cooldown of 5 minutes, the one rate-limit event
\* is a connection_timeout of A, B is the current device with its
\* success_count incremented, and the item is stored.
C16_TimeoutRotatesToIdleDevice ==
    (/\ pc = "done"
     /\ DOMAIN devices = {"d1", "d2"}
     /\ start_available = {"d1", "d2"}
     /\ Len(unseen_videos) = 1
     /\ Recorded("d1", "connection_timeout")
     /\ futures[1] = "ok")
        => /\ devices["d1"].rate_limit_count = 1
           /\ devices["d1"].cooldown_until = now + 5
           /\ BagCardinality(events) = 1
           /\ current_device_id = "d2"
           /\ devices["d2"].success_count = 1
           /\ unseen_videos[1] \in video_ids(videos)
           /\ downloaded_count = 1

\* the scenario of C16 has run to its end
C16_Witness ==
    /\ pc = "done"
    /\ DOMAIN devices = {"d1", "d2"}
    /\ start_available = {"d1", "d2"}
    /\ Len(unseen_videos) = 1
    /\ Recorded("d1", "connection_timeout")
    /\ futures[1] = "ok"
    /\ current_device_id = "d2"

\* C24: two workers running rotate_to_next_device at the same time are
\* never both handed the same device from reads of the device table made
\* before either has written its claim.
C24_SelectionIsCriticalSection ==
    \A w1, w2 \in Workers :
        (/\ w1 # w2
         /\ workers[w1].pc = "claim"
         /\ workers[w2].pc = "claim")
            => workers[w1].next_device # workers[w2].next_device

\* C25: for every item id, at no time are two fetch attempts for that id
\* outstanding at once.
C25_OneFetchPerIdAtATime ==
    \A w1, w2 \in Outstanding :
        w1 # w2 => VideoOf(w1) # VideoOf(w2)

\* C27: when an attempt fails with a rate-limit kind and rotation returns a
\* new device, the next attempt for the item uses the same tier on the new
\* device.
C27_RetrySameTierAfterRotation ==
    [][\A w \in Workers :
          (workers[w].pc = "claim" /\ workers'[w].pc = "fetching")
              => /\ workers'[w].task = workers[w].task
                 /\ workers'[w].quality = workers[w].quality]_vars

\* C28: when an attempt fails and the classifier returns None or rotation
\* finds no device, the item goes on to the next lower tier; it is given up
\* only after the last tier has been attempted.
C28_GivenUpOnlyAfterLastTier ==
    [][\A w \in Workers :
          (/\ workers[w].pc \in {"fetching", "rotate"}
           /\ futures'[workers[w].task] = "none")
              => workers[w].quality = NumQualities]_vars

\* C29: when a fetch attempt succeeds, the item is stored with the quality
\* of that attempt, the success_count of the device the attempt ran on is
\* incremented, and the item is attempted no more.
C29_SuccessStoresAndCountsDevice ==
    [][\A w \in Workers :
          (/\ workers[w].pc = "fetching"
           /\ futures'[workers[w].task] = "ok")
              => /\ VideoRow(VideoOf(w), workers[w].quality) \in videos'
                 /\ workers'[w].pc = "idle"
                 /\ devices'[current_device_id].success_count
                       = devices[current_device_id].success_count + 1]_vars

\* worker w calls _attempt_download in this step
StartsAttempt(w) ==
    /\ workers'[w].pc = "fetching"
    /\ workers'[w] # workers[w]

\* device d is registered, active and not in cooldown at time t
Usable(tbl, d, t) ==
    /\ d \in DOMAIN tbl
    /\ tbl[d].is_active
    /\ ~InCooldownAt(tbl[d].cooldown_until, t)

\* C32: every rate-limit event, with the rate_limit_count increment that
\* goes with it, is recorded against the device that was current when the
\* failing attempt started, whatever other workers did to the current
\* device in the meantime.
C32_EventOnDeviceOfTheAttempt ==
    [][\A w \in Workers :
          (/\ workers[w].pc = "fetching"
           /\ workers'[w] # workers[w]
           /\ events' # events)
              => LET d == workers[w].device
                 IN /\ \E k \in RateLimitTypes :
                          events' = events (+)
                              SetToBag({[device_id |-> d, event_type |-> k]})
                    /\ d \in DOMAIN devices
                          => devices'[d].rate_limit_count
                                = devices[d].rate_limit_count + 1]_vars

\* C33: whenever handle_download_failure returns True, the new current
\* device is registered, active and not in cooldown, under any interleaving
\* of the workers.
C33_RotationLandsOnUsableDevice ==
    [][\A w \in Workers :
          (workers[w].pc = "claim" /\ workers'[w].pc # "claim")
              => Usable(devices', current_device_id', now')]_vars

\* C34: no fetch attempt is started while the current device is in
\* cooldown or inactive.
C34_NoAttemptOnCoolingDevice ==
    [][\A w \in Workers :
          StartsAttempt(w)
              => Usable(devices', current_device_id', now')]_vars

\* C35: the count returned by harvest_playlist is the number of distinct
\* ids that were absent from the videos table before the batch and are in
\* it afterwards.
C35_CountIsNewlyStoredIds ==
    pc = "done"
        => downloaded_count = Cardinality(video_ids(videos) \ start_videos)

Selected == ret.op \in {"select", "rotate"} /\ ret.dev # None

\* C4: selectNextDevice (get_next_available_device, rotate_to_next_device)
\* never returns a device whose cooldown_until is set and strictly later
\* than the current time.
C4_NeverSelectsCoolingDevice ==
    Selected =>
        ~(/\ devices[ret.dev].cooldown_until # NULL
          /\ devices[ret.dev].cooldown_until > now)

\* a selection returned a device while another active device, put into
\* cooldown by a recorded failure, was still cooling
C4_Witness ==
    /\ Selected
    /\ events # EmptyBag
    /\ \E d \in DOMAIN devices \ {ret.dev} :
          /\ devices[d].is_active
          /\ devices[d].cooldown_until # NULL
          /\ devices[d].cooldown_until > now

\* C5: a device whose active flag is false is never returned by
\* selectNextDevice, whatever its other columns hold and even when it is
\* the only registered device.
C5_NeverSelectsInactiveDevice ==
    (ret.op \in {"select", "rotate"} /\ ret.dev \in DOMAIN devices)
        => devices[ret.dev].is_active

\* a selection ran while the only registered device was inactive and out
\* of cooldown
C5_Witness ==
    /\ ret.op = "select"
    /\ \E d \in DeviceIds :
          /\ DOMAIN devices = {d}
          /\ ~devices[d].is_active
          /\ devices[d].last_used # NULL
          /\ devices[d].cooldown_until <= now

\* the devices selectNextDevice may choose from
Eligible ==
    {d \in DOMAIN devices :
        /\ devices[d].is_active
        /\ ~(devices[d].cooldown_until # NULL
             /\ devices[d].cooldown_until > now)}

\* device a comes strictly before device b: last_used ascending with null
\* earliest, then rate_limit_count ascending
Precedes(a, b) ==
    \/ devices[a].last_used = NULL /\ devices[b].last_used # NULL
    \/ /\ devices[a].last_used # NULL
       /\ devices[b].last_used # NULL
       /\ devices[a].last_used < devices[b].last_used
    \/ /\ devices[a].last_used = devices[b].last_used
       /\ devices[a].rate_limit_count < devices[b].rate_limit_count

\* C6: among the active devices not in cooldown, selectNextDevice returns
\* one that no other such device precedes in the order (last_used ascending
\* with null earliest, then rate_limit_count ascending), and None exactly
\* when there is no such device.
C6_SelectsLeastRecentlyUsed ==
    ret.op = "select" =>
        IF Eligible = {} THEN ret.dev = None
        ELSE /\ ret.dev \in Eligible
             /\ \A d \in Eligible : ~Precedes(d, ret.dev)

\* a selection among two eligible devices with equal last_used that differ
\* in rate_limit_count
C6_Witness ==
    /\ ret.op = "select"
    /\ \E a, b \in Eligible :
          /\ devices[a].last_used = devices[b].last_used
          /\ devices[a].rate_limit_count < devices[b].rate_limit_count

\* C7: recordFailure(device, kind, details) sets the device's cooldown_until
\* to now plus the cooldown-table duration of that kind.
C7_CooldownFromTable ==
    (ret.op = "record" /\ ret.dev \in DOMAIN devices)
        => devices[ret.dev].cooldown_until = now + cooldown_periods[ret.kind]

\* C21: for every device, if cooldown_until is set then last_rate_limit is
\* set and cooldown_until >= last_rate_limit.
C21_CooldownNotBeforeRateLimit ==
    \A d \in DOMAIN devices :
        devices[d].cooldown_until # NULL
            => /\ devices[d].last_rate_limit # NULL
               /\ devices[d].cooldown_until >= devices[d].last_rate_limit

\* a rate limit was just recorded against a device that had none before
C21_Witness ==
    /\ ret.op = "record"
    /\ ret.dev \in DOMAIN devices
    /\ devices[ret.dev].rate_limit_count = 1
    /\ devices[ret.dev].last_rate_limit = now
    /\ devices[ret.dev].cooldown_until > now

\* C22: no operation ever decreases a device's rate_limit_count, device
\* registration at harvester start-up included.
C22_RateLimitCountMonotonic ==
    [][\A d \in DOMAIN devices \cap DOMAIN devices' :
          devices'[d].rate_limit_count >= devices[d].rate_limit_count]_vars

\* C23: registering a device_id that is already registered leaves that
\* device's row unchanged.
C23_RegistrationIdempotent ==
    [][(ret'.op = "register" /\ ret'.dev \in DOMAIN devices)
          => devices'[ret'.dev] = devices[ret'.dev]]_vars

\* C26: record_rate_limit_event(device_id, ...) writes the device update
\* (rate_limit_count, last_rate_limit, cooldown_until) and the event row
\* together, for any device_id: after the call the event is there and the
\* cooldown is recorded, or neither is.
C26_CooldownAndEventTogether ==
    [][ret'.op = "record"
          => LET d == ret'.dev
                 appended == events' # events
                 updated ==
                     /\ d \in DOMAIN devices'
                     /\ d \in DOMAIN devices
                     /\ devices'[d].rate_limit_count
                           = devices[d].rate_limit_count + 1
                     /\ devices'[d].last_rate_limit = now
                     /\ devices'[d].cooldown_until # NULL
             IN appended <=> updated]_vars

\* C30: a rotate_to_next_device that returns a device sets that device's
\* last_used to now, adds 1 to its success_count, makes it the current
\* device and changes nothing else in the device table; one that returns
\* None changes no device row and not the current device.
C30_RotationClaimsOnlySelected ==
    [][ret'.op = "rotate"
          => IF ret'.dev = None
             THEN UNCHANGED <<devices, current_device_id>>
             ELSE /\ current_device_id' = ret'.dev
                  /\ DOMAIN devices' = DOMAIN devices
                  /\ \A d \in DOMAIN devices \ {ret'.dev} :
                        devices'[d] = devices[d]
                  /\ devices'[ret'.dev] =
                        [devices[ret'.dev] EXCEPT
                            !.last_used = now,
                            !.success_count = @ + 1]]_vars

\* a rotation away from the current device has returned the other device,
\* which had been rate limited before and had served once
C30_Witness ==
    /\ ret.op = "rotate"
    /\ ret.dev \notin {None, "d1"}
    /\ current_device_id = ret.dev
    /\ devices[ret.dev].last_used = now
    /\ devices[ret.dev].success_count = 2
    /\ devices[ret.dev].rate_limit_count = 1

\* C31: recording an ordinary failure adds 1 to the current device's
\* failure_count and changes nothing else: not the other columns of that
\* row, not another row, not the rate-limit events, not the current device.
C31_OrdinaryFailureCountsOnly ==
    [][(ret'.op = "ordinary" /\ ret'.dev \in DOMAIN devices)
          => /\ devices' = [devices EXCEPT ![ret'.dev].failure_count = @ + 1]
             /\ UNCHANGED <<events, current_device_id>>]_vars

\* the number of rate-limit events recorded for device d
EventCount(evs, d) ==
    LET of_d == {e \in BagToSet(evs) : e.device_id = d}
        RECURSIVE Sum(_)
        Sum(S) == IF S = {} THEN 0
                  ELSE LET e == CHOOSE x \in S : TRUE
                       IN CopiesIn(e, evs) + Sum(S \ {e})
    IN Sum(of_d)

\* every registered device has as many rate-limit events as its
\* rate_limit_count says, and every event is of a registered device
EventsMatchCounts(tbl, evs) ==
    /\ \A d \in DOMAIN tbl : tbl[d].rate_limit_count = EventCount(evs, d)
    /\ \A e \in BagToSet(evs) : e.device_id \in DOMAIN tbl

\* C36: for every registered device rate_limit_count equals the number of
\* rate-limit events with its device_id, and every event refers to a
\* registered device; no operation, on whatever device id, breaks this.
C36_EventsMatchRateLimitCount ==
    [][EventsMatchCounts(devices, events)
          => EventsMatchCounts(devices', events')]_vars

\* C38: an active device whose cooldown_until has been reached is eligible
\* again: a selection made then returns a device, not None.
C38_CooldownExpires ==
    (/\ ret.op = "select"
     /\ \E d \in DOMAIN devices :
           /\ devices[d].is_active
           /\ devices[d].cooldown_until # NULL
           /\ devices[d].cooldown_until <= now)
        => ret.dev # None

\* the only registered device was put into cooldown by a recorded failure
\* and is selected at the minute its cooldown ends
C38_Witness ==
    /\ ret.op = "select"
    /\ ret.dev \in DOMAIN devices
    /\ DOMAIN devices = {ret.dev}
    /\ events # EmptyBag
    /\ \A e \in BagToSet(events) : e.device_id = ret.dev
    /\ devices[ret.dev].cooldown_until = now
    /\ devices[ret.dev].last_rate_limit = now - 5

\* C39: after deactivate_device(d) on a registered device d, d is inactive;
\* after reactivate_device(d), d is active with cooldown_until cleared.
C39_OperatorSwitchesDevice ==
    [][/\ (ret'.op = "deactivate" /\ ret'.dev \in DOMAIN devices)
            => ~devices'[ret'.dev].is_active
       /\ (ret'.op = "reactivate" /\ ret'.dev \in DOMAIN devices)
            => /\ devices'[ret'.dev].is_active
               /\ devices'[ret'.dev].cooldown_until = NULL]_vars

\* C20: is_device_in_cooldown(device_id) returns true if and only if the
\* device's cooldown_until is set and strictly later than the current time,
\* for every registered device, active or not.
C20_CooldownIffLaterThanNow ==
    (ret.op = "cooldown" /\ ret.dev \in DOMAIN devices)
        => (ret.value <=> (/\ devices[ret.dev].cooldown_until # NULL
                           /\ devices[ret.dev].cooldown_until > now))

\* ------------------------------------------------------ classifier: claims
Classified == detect_call.rate_limit_type # "not called"

\* C17: when http_status is 429, 403 or 503 detect_rate_limit returns
\* http_429, http_403 or http_503 respectively, whatever the error text and
\* the download speed are.
C17_StatusCodeDecides ==
    Classified =>
        /\ detect_call.http_status = 429
              => detect_call.rate_limit_type = "http_429"
        /\ detect_call.http_status = 403
              => detect_call.rate_limit_type = "http_403"
        /\ detect_call.http_status = 503
              => detect_call.rate_limit_type = "http_503"

\* status 429 came with a text that speaks of 403 and of a quota
C17_Witness ==
    /\ Classified
    /\ detect_call.http_status = 429
    /\ detect_call.error_output =
          {"HTTP Error 403: Forbidden", "Quota exceeded for this API"}
    /\ detect_call.rate_limit_type = "http_429"

\* the pattern groups of the text scan in the order of the specification,
\* with the kind each stands for
TextGroups ==
    <<[kind |-> "http_429", patterns |-> {"429", "too many requests"}],
      [kind |-> "http_403", patterns |-> {"403", "forbidden"}],
      [kind |-> "http_503", patterns |-> {"503", "service unavailable"}],
      [kind |-> "quota_exceeded", patterns |-> {"quota"}],
      [kind |-> "connection_timeout", patterns |-> {"timeout", "connection"}],
      [kind |-> "download_failure", patterns |-> {"failed"}]>>

\* the groups a text matches when letter case is ignored
MatchedGroups(text) ==
    {g \in DOMAIN TextGroups :
        \E pattern \in TextGroups[g].patterns :
            \E l \in text : pattern \in PatternsIn(lower_line(l))}

\* C18: without http_status, the first group of the order 429 / too many
\* requests, 403 / forbidden, 503 / service unavailable, quota, timeout or
\* connection, failed that the error text matches, letter case ignored,
\* decides the result, whatever the download speed is.
C18_FirstMatchingGroupDecides ==
    (/\ Classified
     /\ detect_call.http_status = NULL
     /\ MatchedGroups(detect_call.error_output) # {})
        => detect_call.rate_limit_type =
              TextGroups[Min(MatchedGroups(detect_call.error_output))].kind

\* a text that matches "failed", "connection" and "timeout" only when its
\* capitals are ignored, together with a quota line, was classified
C18_Witness ==
    /\ Classified
    /\ detect_call.http_status = NULL
    /\ detect_call.download_speed = 4000
    /\ detect_call.error_output =
          {"Download failed: Connection timeout",
           "Quota exceeded for this API"}
    /\ detect_call.rate_limit_type = "quota_exceeded"

\* C19: without http_status and with an error text that matches no pattern,
\* detect_rate_limit returns speed_drop for every given download speed below
\* 10,000 bytes/sec, 0 included, and None when the speed is absent or at
\* least 10,000.
C19_SlowDownloadIsSpeedDrop ==
    (/\ Classified
     /\ detect_call.http_status = NULL
     /\ MatchedGroups(detect_call.error_output) = {})
        => detect_call.rate_limit_type =
              IF /\ detect_call.download_speed # NULL
                 /\ detect_call.download_speed < 10000
              THEN "speed_drop"
              ELSE None

\* --------------------------------------------------------- manager: claims
\* C40: after any sequence and any interleaving of start_harvester and
\* stop_harvester calls at most one harvester process is alive, and the pid
\* file, when it exists while a harvester is alive, names that process.
C40_SingleHarvesterInstance ==
    /\ Cardinality(procs) <= 1
    /\ (pid_file # NULL /\ procs # {}) => pid_file \in procs

====
